---- MODULE Spec2Model ----
(***************************************************************************)
(* Model of lib/classes/many_to_many.py: the Article, Author and Magazine  *)
(* classes, their class-level registries, the per-owner _articles lists    *)
(* and the queries derived from them.                                      *)
(*                                                                         *)
(* Objects are heap cells.  An Author is an index of author_name, a        *)
(* Magazine an index of magazine_name, an Article an index of              *)
(* article_title; a cell exists from the moment its __init__ passed its    *)
(* validation.  A Python value is a record [kind, id]; strings are         *)
(* abstracted to what the code inspects: their type and their length.      *)
(***************************************************************************)
EXTENDS Integers, Sequences, FiniteSets, TLC

VARIABLES
    Article_all,        \* Article.all: sequence of Article ids
    Magazine_all,       \* Magazine.all: sequence of Magazine ids
    article_title,      \* Article id -> self._title
    article_author,     \* Article id -> self._author (a value)
    article_magazine,   \* Article id -> self._magazine (a value)
    author_name,        \* Author id -> self._name
    magazine_name,      \* Magazine id -> self._name
    magazine_category,  \* Magazine id -> self._category
    _articles,          \* owner value (Author or Magazine) -> self._articles
    err,                \* what the last call raised ("none" when it returned)
    calls               \* number of calls made so far

vars == <<Article_all, Magazine_all, article_title, article_author,
          article_magazine, author_name, magazine_name, magazine_category,
          _articles, err, calls>>

\* Everything but err and calls: the state of the Python process.
heap == <<Article_all, Magazine_all, article_title, article_author,
          article_magazine, author_name, magazine_name, magazine_category,
          _articles>>

----------------------------------------------------------------------------
\* Bounds of the model: the numbers of Authors, Magazines and Articles
\* constructed and the number of calls made.
MaxAuthors == 2
MaxMagazines == 2
MaxArticles == 3
MaxCalls == 6

\* Constants of the program.
MinTitleLen == 5
MaxTitleLen == 50
MinMagazineNameLen == 2
MaxMagazineNameLen == 16
ContributionThreshold == 2

----------------------------------------------------------------------------
\* Python values.
Str(n) == [kind |-> "str", id |-> n]          \* a str of length n
None == [kind |-> "None", id |-> 0]
NotAStr == [kind |-> "int", id |-> 7]         \* a value that is not a str
AuthorRef(i) == [kind |-> "Author", id |-> i]
MagazineRef(i) == [kind |-> "Magazine", id |-> i]

Authors == {AuthorRef(i) : i \in DOMAIN author_name}
Magazines == {MagazineRef(i) : i \in DOMAIN magazine_name}
Articles == DOMAIN article_title

\* isinstance(v, str), isinstance(v, Author), isinstance(v, Magazine)
IsStr(v) == v.kind = "str"
IsAuthor(v) == v.kind = "Author"
IsMagazine(v) == v.kind = "Magazine"

\* bool(v): None and the empty str are falsy, instances of the classes
\* (no __bool__, no __len__) and non-empty strs are truthy.
Truthy(v) ==
    CASE v.kind = "None" -> FALSE
      [] v.kind = "str" -> v.id > 0
      [] OTHER -> TRUE

\* Values on which the attribute _articles can be read and set: instances of
\* the two classes.  None and strs raise AttributeError.
HasArticles(v) == v.kind \in {"Author", "Magazine"}

\* The values a caller passes where an Author or a Magazine is expected:
\* every Author and Magazine constructed so far, and None.
Values == Authors \cup Magazines \cup {None}

\* The values assigned through the setters: both ends of every accepted
\* range, the first value outside each end, and a value of another type.
TitleInputs ==
    {Str(MinTitleLen - 1), Str(MinTitleLen), Str(MaxTitleLen),
     Str(MaxTitleLen + 1), NotAStr}
AuthorNameInputs == {Str(0), Str(1), NotAStr}
MagazineNameInputs ==
    {Str(MinMagazineNameLen - 1), Str(MinMagazineNameLen),
     Str(MaxMagazineNameLen), Str(MaxMagazineNameLen + 1), NotAStr}
CategoryInputs == {Str(0), Str(4), Str(6), NotAStr}

\* The values passed to the constructors: one accepted value of each field
\* and every way of being rejected.
NewTitleInputs == TitleInputs \ {Str(MaxTitleLen)}
NewMagazineNameInputs == MagazineNameInputs \ {Str(MaxMagazineNameLen)}
NewCategoryInputs == CategoryInputs \ {Str(6)}

----------------------------------------------------------------------------
\* list helpers

\* x in lst
Contains(lst, x) == \E i \in DOMAIN lst : lst[i] = x

\* lst.remove(x): drops the first occurrence of x
Remove(lst, x) ==
    IF ~Contains(lst, x) THEN lst
    ELSE LET k == CHOOSE i \in DOMAIN lst :
                      lst[i] = x /\ \A j \in 1..(i - 1) : lst[j] # x
         IN [i \in 1..(Len(lst) - 1) |-> IF i < k THEN lst[i] ELSE lst[i + 1]]

----------------------------------------------------------------------------
\* validation predicates

ValidTitle(title) ==
    IsStr(title) /\ MinTitleLen <= title.id /\ title.id <= MaxTitleLen

ValidAuthorName(name) == IsStr(name) /\ name.id # 0

ValidMagazineName(name) ==
    IsStr(name) /\ MinMagazineNameLen <= name.id /\ name.id <= MaxMagazineNameLen

ValidCategory(category) == IsStr(category) /\ category.id # 0

----------------------------------------------------------------------------
Init ==
    /\ Article_all = <<>>
    /\ Magazine_all = <<>>
    /\ article_title = <<>>
    /\ article_author = <<>>
    /\ article_magazine = <<>>
    /\ author_name = <<>>
    /\ magazine_name = <<>>
    /\ magazine_category = <<>>
    /\ _articles = <<>>
    /\ err = "none"
    /\ calls = 0

\* One more call of the interface is made.
Called == calls < MaxCalls /\ calls' = calls + 1

\* Author.__init__(name)
AuthorInit(name) ==
    /\ Called
    /\ Len(author_name) < MaxAuthors
    /\ IF ~ValidAuthorName(name)
       THEN /\ err' = "ValueError"
            /\ UNCHANGED heap
       ELSE /\ author_name' = Append(author_name, name)
            /\ _articles' = _articles @@ (AuthorRef(Len(author_name) + 1) :> <<>>)
            /\ err' = "none"
            /\ UNCHANGED <<Article_all, Magazine_all, article_title,
                           article_author, article_magazine, magazine_name,
                           magazine_category>>

\* Author.name setter: always raises
AuthorNameSetter(self, value) ==
    [err |-> "Exception", name |-> author_name[self]]

\* author.name = value
SetAuthorName(self, value) ==
    LET r == AuthorNameSetter(self, value)
    IN /\ Called
       /\ err' = r.err
       /\ author_name' = [author_name EXCEPT ![self] = r.name]
       /\ UNCHANGED <<Article_all, Magazine_all, article_title, article_author,
                      article_magazine, magazine_name, magazine_category,
                      _articles>>

\* Magazine.all.append(self)
RegisterMagazine(all, self) == Append(all, self)

\* Magazine.__init__(name, category)
MagazineInit(name, category) ==
    /\ Called
    /\ Len(magazine_name) < MaxMagazines
    /\ IF ~ValidMagazineName(name) \/ ~ValidCategory(category)
       THEN /\ err' = "ValueError"
            /\ UNCHANGED heap
       ELSE LET self == Len(magazine_name) + 1
            IN /\ magazine_name' = Append(magazine_name, name)
               /\ magazine_category' = Append(magazine_category, category)
               /\ _articles' = _articles @@ (MagazineRef(self) :> <<>>)
               /\ Magazine_all' = RegisterMagazine(Magazine_all, self)
               /\ err' = "none"
               /\ UNCHANGED <<Article_all, article_title, article_author,
                              article_magazine, author_name>>

\* Magazine.name setter: the name after the call and what the call raised
MagazineNameSetter(self, value) ==
    IF ~ValidMagazineName(value)
    THEN [err |-> "ValueError", name |-> magazine_name[self]]
    ELSE [err |-> "none", name |-> value]

\* magazine.name = value
SetMagazineName(self, value) ==
    LET r == MagazineNameSetter(self, value)
    IN /\ Called
       /\ err' = r.err
       /\ magazine_name' = [magazine_name EXCEPT ![self] = r.name]
       /\ UNCHANGED <<Article_all, Magazine_all, article_title, article_author,
                      article_magazine, author_name, magazine_category,
                      _articles>>

\* Magazine.category setter
MagazineCategorySetter(self, value) ==
    IF ~ValidCategory(value)
    THEN [err |-> "ValueError", category |-> magazine_category[self]]
    ELSE [err |-> "none", category |-> value]

\* magazine.category = value
SetMagazineCategory(self, value) ==
    LET r == MagazineCategorySetter(self, value)
    IN /\ Called
       /\ err' = r.err
       /\ magazine_category' = [magazine_category EXCEPT ![self] = r.category]
       /\ UNCHANGED <<Article_all, Magazine_all, article_title, article_author,
                      article_magazine, author_name, magazine_name, _articles>>

\* A registry that puts the newest Article first.
RegisterArticleFirst(all, self) == <<self>> \o all

\* Article.all.append(self)
RegisterArticle(all, self) == Append(all, self)

\* if not hasattr(owner, '_articles'): owner._articles = []
\* owner._articles.append(self)
\* An Author or a Magazine always has the list; on None or a str hasattr is
\* False and the assignment of the attribute raises AttributeError.
Link(lists, owner, self) ==
    IF HasArticles(owner)
    THEN [err |-> "none", lists |-> [lists EXCEPT ![owner] = Append(@, self)]]
    ELSE [err |-> "AttributeError", lists |-> lists]

\* Article.__init__(author, magazine, title).  Only the title is validated;
\* the fields are stored and the Article registered before the two lists are
\* touched, so an AttributeError of the linking leaves the Article in
\* Article.all.
ArticleInit(author, magazine, title) ==
    /\ Called
    /\ Len(article_title) < MaxArticles
    /\ IF ~ValidTitle(title)
       THEN /\ err' = "ValueError"
            /\ UNCHANGED heap
       ELSE LET self == Len(article_title) + 1
                la == Link(_articles, author, self)
                lm == IF la.err = "none" THEN Link(la.lists, magazine, self)
                                         ELSE la
            IN /\ article_title' = Append(article_title, title)
               /\ article_author' = Append(article_author, author)
               /\ article_magazine' = Append(article_magazine, magazine)
               /\ Article_all' = RegisterArticle(Article_all, self)
               /\ _articles' = lm.lists
               /\ err' = lm.err
               /\ UNCHANGED <<Magazine_all, author_name, magazine_name,
                              magazine_category>>

\* Author.add_article(magazine, title): Article(self, magazine, title)
AddArticle(self, magazine, title) == ArticleInit(AuthorRef(self), magazine, title)

\* A title setter that accepts a valid title.
TitleSetterAssigns(self, value) ==
    IF ValidTitle(value)
    THEN [err |-> "none", title |-> value]
    ELSE [err |-> "Exception", title |-> article_title[self]]

\* Article.title setter: always raises
TitleSetter(self, value) ==
    [err |-> "Exception", title |-> article_title[self]]

\* article.title = value
SetTitle(self, value) ==
    LET r == TitleSetter(self, value)
    IN /\ Called
       /\ err' = r.err
       /\ article_title' = [article_title EXCEPT ![self] = r.title]
       /\ UNCHANGED <<Article_all, Magazine_all, article_author,
                      article_magazine, author_name, magazine_name,
                      magazine_category, _articles>>

\* A setter that unlinks the Article before it checks the new value.
ReassignUnlinksFirst(lists, self, old, value, class) ==
    LET removed ==
            IF Truthy(old) /\ HasArticles(old) /\ Contains(lists[old], self)
            THEN [lists EXCEPT ![old] = Remove(@, self)]
            ELSE lists
    IN IF value.kind # class
       THEN [err |-> "ValueError", lists |-> removed, field |-> old]
       ELSE [err |-> "none",
             lists |-> [removed EXCEPT ![value] = Append(@, self)],
             field |-> value]

\* The body shared by the author setter and the magazine setter, `old` being
\* self._author (self._magazine) and `class` the class checked by isinstance:
\*     if not isinstance(value, class): raise ValueError
\*     if old and self in old._articles: old._articles.remove(self)
\*     self._field = value
\*     value._articles.append(self)
\* Returns what the call raised, the lists and the field after the call.
Reassign(lists, self, old, value, class) ==
    IF value.kind # class
    THEN [err |-> "ValueError", lists |-> lists, field |-> old]
    ELSE IF Truthy(old) /\ ~HasArticles(old)
    THEN [err |-> "AttributeError", lists |-> lists, field |-> old]
    ELSE LET removed ==
                 IF Truthy(old) /\ Contains(lists[old], self)
                 THEN [lists EXCEPT ![old] = Remove(@, self)]
                 ELSE lists
         IN [err |-> "none",
             lists |-> [removed EXCEPT ![value] = Append(@, self)],
             field |-> value]

\* article.author = value
SetAuthor(self, value) ==
    LET r == Reassign(_articles, self, article_author[self], value, "Author")
    IN /\ Called
       /\ err' = r.err
       /\ _articles' = r.lists
       /\ article_author' = [article_author EXCEPT ![self] = r.field]
       /\ UNCHANGED <<Article_all, Magazine_all, article_title,
                      article_magazine, author_name, magazine_name,
                      magazine_category>>

\* article.magazine = value
SetMagazine(self, value) ==
    LET r == Reassign(_articles, self, article_magazine[self], value, "Magazine")
    IN /\ Called
       /\ err' = r.err
       /\ _articles' = r.lists
       /\ article_magazine' = [article_magazine EXCEPT ![self] = r.field]
       /\ UNCHANGED <<Article_all, Magazine_all, article_title,
                      article_author, author_name, magazine_name,
                      magazine_category>>

----------------------------------------------------------------------------
\* queries

\* Author.articles() and Magazine.articles(): return self._articles
articles(owner) == _articles[owner]

\* len(mag._articles), the key of max() in top_publisher
ArticleCount(mag) == Len(_articles[MagazineRef(mag)])

\* A max() that keeps the last of several greatest elements.
RECURSIVE MaxLast(_, _, _)
MaxLast(all, i, best) ==
    IF i > Len(all) THEN best
    ELSE MaxLast(all, i + 1,
                 IF ArticleCount(all[i]) >= ArticleCount(best) THEN all[i] ELSE best)

\* max(cls.all, key=...): scans from the left and replaces the element kept
\* only by one with a strictly greater key.  Called with i = 2, best = all[1].
RECURSIVE Max(_, _, _)
Max(all, i, best) ==
    IF i > Len(all) THEN best
    ELSE Max(all, i + 1,
             IF ArticleCount(all[i]) > ArticleCount(best) THEN all[i] ELSE best)

\* Magazine.top_publisher()
top_publisher ==
    IF Magazine_all = <<>> THEN None
    ELSE IF \E i \in DOMAIN Magazine_all : ArticleCount(Magazine_all[i]) > 0
    THEN MagazineRef(Max(Magazine_all, 2, Magazine_all[1]))
    ELSE None

\* The keys of author_counts in insertion order: the authors of the articles
\* of lst, each at its first appearance.
RECURSIVE Keys(_)
Keys(lst) ==
    IF lst = <<>> THEN <<>>
    ELSE LET init == Keys(SubSeq(lst, 1, Len(lst) - 1))
             author == article_author[lst[Len(lst)]]
         IN IF Contains(init, author) THEN init ELSE Append(init, author)

\* author_counts[author] after the loop over lst
AuthorCount(lst, author) ==
    Cardinality({i \in DOMAIN lst : article_author[lst[i]] = author})

\* Magazine.contributing_authors(): [kind |-> "None"] stands for None
contributing_authors(self) ==
    LET lst == _articles[MagazineRef(self)]
        Over(author) == AuthorCount(lst, author) > ContributionThreshold
        contributing == SelectSeq(Keys(lst), Over)
    IN IF contributing = <<>>
       THEN [kind |-> "None", val |-> <<>>]
       ELSE [kind |-> "list", val |-> contributing]

\* The lists list(S) can return: S in any order of iteration.
ListOfSet(S) ==
    {l \in [1..Cardinality(S) -> S] : \A e \in S : \E i \in DOMAIN l : l[i] = e}

\* Author.topic_areas(): the set of the values the call can return.  Reading
\* .category of a value that is not a Magazine raises AttributeError.
topic_areas(self) ==
    LET lst == _articles[AuthorRef(self)]
    IN IF lst = <<>> THEN {[kind |-> "None", val |-> <<>>]}
       ELSE IF \E i \in DOMAIN lst : ~IsMagazine(article_magazine[lst[i]])
       THEN {[kind |-> "AttributeError", val |-> <<>>]}
       ELSE {[kind |-> "list", val |-> l] :
                l \in ListOfSet({magazine_category[article_magazine[lst[i]].id] :
                                    i \in DOMAIN lst})}

----------------------------------------------------------------------------
Next ==
    \/ \E name \in AuthorNameInputs : AuthorInit(name)
    \/ \E self \in DOMAIN author_name, value \in AuthorNameInputs :
           SetAuthorName(self, value)
    \/ \E name \in NewMagazineNameInputs, category \in NewCategoryInputs :
           MagazineInit(name, category)
    \/ \E self \in DOMAIN magazine_name, value \in MagazineNameInputs :
           SetMagazineName(self, value)
    \/ \E self \in DOMAIN magazine_category, value \in CategoryInputs :
           SetMagazineCategory(self, value)
    \/ \E author \in Values, magazine \in Values, title \in NewTitleInputs :
           ArticleInit(author, magazine, title)
    \/ \E self \in DOMAIN author_name, magazine \in Values, title \in NewTitleInputs :
           AddArticle(self, magazine, title)
    \/ \E self \in Articles, value \in TitleInputs : SetTitle(self, value)
    \/ \E self \in Articles, value \in Values : SetAuthor(self, value)
    \/ \E self \in Articles, value \in Values : SetMagazine(self, value)

Spec == Init /\ [][Next]_vars

----------------------------------------------------------------------------
\* properties

\* number of occurrences of x in lst
Count(lst, x) == Cardinality({i \in DOMAIN lst : lst[i] = x})

\* lst has no element twice
NoDuplicates(lst) == \A i, j \in DOMAIN lst : lst[i] = lst[j] => i = j

\* lst holds its elements in increasing order
Increasing(lst) == \A i, j \in DOMAIN lst : i < j => lst[i] < lst[j]

\* the elements of lst
Range(lst) == {lst[i] : i \in DOMAIN lst}

\* a is an initial segment of b
IsPrefix(a, b) == Len(a) <= Len(b) /\ \A i \in DOMAIN a : a[i] = b[i]

\* The Articles of Article.all whose author (magazine) is owner, in the order
\* of Article.all: the articles() of the filter-on-read variant.
FilterOnRead(owner) ==
    LET Mine(x) == IF IsAuthor(owner) THEN article_author[x] = owner
                                      ELSE article_magazine[x] = owner
    IN SelectSeq(Article_all, Mine)

\* C1: every Article occurs exactly once in the articles() of its current
\* author and of its current magazine, and in no other Author's or
\* Magazine's articles().
C1_BackReferencesExact ==
    \A x \in Articles :
        /\ \A a \in Authors :
               Count(articles(a), x) = IF article_author[x] = a THEN 1 ELSE 0
        /\ \A m \in Magazines :
               Count(articles(m), x) = IF article_magazine[x] = m THEN 1 ELSE 0

\* C2: a call that fails leaves Article.all, Magazine.all, every _articles
\* list and every field as they were before it.  The failures of the claim
\* are the calls that raise ValueError (an Article constructed with an
\* invalid title, an Author or a Magazine with invalid arguments, author or
\* magazine set to a value of the wrong class, a Magazine's name or category
\* set to an invalid value) or Exception (a write to Article.title or
\* Author.name).
C2_FailedCallChangesNothing ==
    [][err' \in {"ValueError", "Exception"} => UNCHANGED heap]_vars

\* C2 witness: a call was rejected when Articles, Magazines and Authors
\* existed and were linked.
C2_Witness ==
    /\ err = "ValueError"
    /\ \E x \in Articles :
           /\ IsAuthor(article_author[x]) /\ IsMagazine(article_magazine[x])
           /\ Contains(articles(article_author[x]), x)
           /\ Contains(articles(article_magazine[x]), x)

\* articles() of owner after the call
articlesAfter(owner) == _articles'[owner]

\* What a successful article.author = value, old being the author before the
\* call, does according to C3.
AuthorReassigned(x, old, value) ==
    /\ (old # value /\ HasArticles(old)) => ~Contains(articlesAfter(old), x)
    /\ articlesAfter(value) # <<>>
    /\ articlesAfter(value)[Len(articlesAfter(value))] = x
    /\ article_magazine' = article_magazine
    /\ \A m \in Magazines : articlesAfter(m) = articles(m)
    /\ \A a \in Authors \ {old, value} : articlesAfter(a) = articles(a)
    /\ Article_all' = Article_all

\* The same for article.magazine = value.
MagazineReassigned(x, old, value) ==
    /\ (old # value /\ HasArticles(old)) => ~Contains(articlesAfter(old), x)
    /\ articlesAfter(value) # <<>>
    /\ articlesAfter(value)[Len(articlesAfter(value))] = x
    /\ article_author' = article_author
    /\ \A a \in Authors : articlesAfter(a) = articles(a)
    /\ \A m \in Magazines \ {old, value} : articlesAfter(m) = articles(m)
    /\ Article_all' = Article_all

\* C3: a successful reassignment of the author removes the Article from the
\* old author's articles(), makes it the last of the new author's and leaves
\* the magazine, every Magazine's articles(), the other Authors' articles()
\* and Article.all alone; symmetrically for the magazine.
C3_ReassignmentFrame ==
    [][\A x \in Articles, value \in Values :
           /\ (SetAuthor(x, value) /\ err' = "none")
                  => AuthorReassigned(x, article_author[x], value)
           /\ (SetMagazine(x, value) /\ err' = "none")
                  => MagazineReassigned(x, article_magazine[x], value)]_vars

\* C4: every Article of Article.all has an Author as its author and a
\* Magazine as its magazine.
C4_ValidReferences ==
    \A i \in DOMAIN Article_all :
        /\ article_author[Article_all[i]] \in Authors
        /\ article_magazine[Article_all[i]] \in Magazines

\* C5: top_publisher() is None exactly when no Magazine of Magazine.all has
\* an article in its articles(); otherwise it is the first Magazine of
\* Magazine.all among those with the greatest len(articles()).
C5_TopPublisher ==
    LET r == top_publisher
        n(i) == Len(articles(MagazineRef(Magazine_all[i])))
    IN /\ (r = None) <=> (\A i \in DOMAIN Magazine_all : n(i) = 0)
       /\ (r # None) =>
              \E i \in DOMAIN Magazine_all :
                  /\ r = MagazineRef(Magazine_all[i])
                  /\ \A j \in DOMAIN Magazine_all : n(j) <= n(i)
                  /\ \A j \in 1..(i - 1) : n(j) < n(i)

\* C5 witness: after a reassignment (an articles() list is out of creation
\* order) two Magazines share the greatest count, which is not 0, and
\* top_publisher() is the first of them.
C5_Witness ==
    /\ Len(Magazine_all) >= 2
    /\ ArticleCount(Magazine_all[1]) = ArticleCount(Magazine_all[2])
    /\ ArticleCount(Magazine_all[1]) > 0
    /\ \E m \in Magazines : ~Increasing(articles(m))
    /\ top_publisher = MagazineRef(Magazine_all[1])

\* The Authors who are the author of more than ContributionThreshold of the
\* Articles of lst.
Qualifying(lst) ==
    {a \in Authors :
        Cardinality({x \in Range(lst) : article_author[x] = a})
            > ContributionThreshold}

\* the index of the first Article of lst whose author is a
FirstArticleOf(lst, a) ==
    CHOOSE i \in DOMAIN lst :
        /\ article_author[lst[i]] = a
        /\ \A j \in 1..(i - 1) : article_author[lst[j]] # a

\* C6: contributing_authors() is None when no Author is the author of more
\* than 2 of the Magazine's articles(); otherwise it lists exactly those
\* Authors, each once, in the order of their first article in articles().
C6_ContributingAuthors ==
    \A m \in DOMAIN magazine_name :
        LET r == contributing_authors(m)
            lst == articles(MagazineRef(m))
        IN /\ (r.kind = "None") <=> (Qualifying(lst) = {})
           /\ (r.kind = "list") =>
                  /\ NoDuplicates(r.val)
                  /\ Range(r.val) = Qualifying(lst)
                  /\ \A i, j \in DOMAIN r.val :
                         i < j => FirstArticleOf(lst, r.val[i])
                                      < FirstArticleOf(lst, r.val[j])

\* C7: topic_areas() is None exactly when the Author's articles() is empty;
\* otherwise it is a list without duplicates of the categories of the
\* magazines of the Author's articles().
C7_TopicAreas ==
    \A a \in DOMAIN author_name :
        \A r \in topic_areas(a) :
            LET lst == articles(AuthorRef(a))
            IN /\ (r.kind = "None") <=> (lst = <<>>)
               /\ (r.kind # "None") =>
                      /\ r.kind = "list"
                      /\ NoDuplicates(r.val)
                      /\ Range(r.val) =
                             {magazine_category[article_magazine[lst[i]].id] :
                                 i \in DOMAIN lst}

\* C8: no call changes the title of an Article or the name of an Author, a
\* new Article has the title and a new Author the name given to the
\* constructor, and every assignment to Article.title or Author.name raises
\* Exception, which is not the ValueError of a rejected value.
C8_ImmutableFields ==
    [][/\ \A x \in Articles : article_title'[x] = article_title[x]
       /\ \A a \in DOMAIN author_name : author_name'[a] = author_name[a]
       /\ Len(article_title') > Len(article_title) =>
              \E author \in Values, magazine \in Values, title \in NewTitleInputs :
                  /\ article_title'[Len(article_title')] = title
                  /\ ArticleInit(author, magazine, title)
       /\ Len(author_name') > Len(author_name) =>
              \E name \in AuthorNameInputs :
                  /\ author_name'[Len(author_name')] = name
                  /\ AuthorInit(name)
       /\ \/ err' = "Exception" /\ err' # "ValueError"
          \/ /\ \A x \in Articles, value \in TitleInputs : ~SetTitle(x, value)
             /\ \A a \in DOMAIN author_name, value \in AuthorNameInputs :
                    ~SetAuthorName(a, value)
      ]_vars

\* C8 witness: an assignment to a title or a name was just refused, Articles
\* and Authors existing.
C8_Witness ==
    /\ err = "Exception"
    /\ Articles # {}
    /\ Authors # {}

\* C9: Article.all lists the Articles and Magazine.all the Magazines, each
\* once and in the order of their construction, and a call only ever appends
\* to them.
C9_AppendOnlyRegistries ==
    /\ [](/\ Article_all = [i \in Articles |-> i]
          /\ Magazine_all = [i \in DOMAIN magazine_name |-> i])
    /\ [][/\ IsPrefix(Article_all, Article_all')
          /\ IsPrefix(Magazine_all, Magazine_all')
          /\ Len(Article_all') <= Len(Article_all) + 1
          /\ Len(Magazine_all') <= Len(Magazine_all) + 1]_vars

\* C9 witness: two Articles and two Magazines are registered, an Article was
\* reassigned and the last call was rejected.
C9_Witness ==
    /\ Len(Article_all) >= 2
    /\ Len(Magazine_all) >= 2
    /\ \E o \in Authors \cup Magazines : ~Increasing(articles(o))
    /\ err = "ValueError"

\* C10: articles() of every Author and of every Magazine is the list the
\* filter-on-read variant returns.
C10_SameAsFilterOnRead ==
    \A o \in Authors \cup Magazines : articles(o) = FilterOnRead(o)
====
